---- MODULE Spec2Model ----
(***************************************************************************)
(* YT-Script-Optimizer (src/index.js): the script analysis and rewrite     *)
(* engine behind the optimizeScript tool, and the handleToolCall envelope   *)
(* that answers one tools/call request.                                     *)
(*                                                                         *)
(* Text is a sequence of one-character strings.  Positions are 1-based     *)
(* (JavaScript index k is position k + 1) and "not found" is 0 where       *)
(* JavaScript returns -1.  Operators over whole scripts are written with   *)
(* bounded quantifiers over positions, the way the regular expressions of  *)
(* the source scan the text, so that long scripts are evaluated without    *)
(* deep recursion.                                                         *)
(***************************************************************************)
EXTENDS Integers, Sequences, FiniteSets, TLC

VARIABLES
    engagementPhrases,  \* this.engagementPhrases, the instance's phrase tables
    clock,              \* the wall clock read by new Date()
    request,            \* the params of the last tools/call request; the
                        \* argument, where a function is applied on its own
    response,           \* the JSON-RPC response returned for it; the value
                        \* returned, where a function is applied on its own
    stages,             \* the pipeline stages the last optimizeScript call ran
    history             \* earlier (request, response) pairs, oldest first

vars == <<engagementPhrases, clock, request, response, stages, history>>

----------------------------------------------------------------------------
(* Characters and the character classes of the source's regular expressions *)

Min(S) == CHOOSE x \in S : \A y \in S : x <= y
Max(S) == CHOOSE x \in S : \A y \in S : x >= y

\* \s restricted to the whitespace characters of the modelled alphabet
IsWhitespace(c) == c \in {" ", "\n"}

\* the class [.!?]
IsTerminator(c) == c \in {".", "!", "?"}

UpperToLower ==
    ("A" :> "a") @@ ("B" :> "b") @@ ("C" :> "c") @@ ("D" :> "d") @@ ("E" :> "e") @@
    ("F" :> "f") @@ ("G" :> "g") @@ ("H" :> "h") @@ ("I" :> "i") @@ ("J" :> "j") @@
    ("K" :> "k") @@ ("L" :> "l") @@ ("M" :> "m") @@ ("N" :> "n") @@ ("O" :> "o") @@
    ("P" :> "p") @@ ("Q" :> "q") @@ ("R" :> "r") @@ ("S" :> "s") @@ ("T" :> "t") @@
    ("U" :> "u") @@ ("V" :> "v") @@ ("W" :> "w") @@ ("X" :> "x") @@ ("Y" :> "y") @@
    ("Z" :> "z")

UpperLetters == DOMAIN UpperToLower
LowerLetters == {UpperToLower[u] : u \in UpperLetters}

\* String.prototype.toLowerCase on one character
LowerChar(c) == IF c \in UpperLetters THEN UpperToLower[c] ELSE c

\* String.prototype.toLowerCase
toLowerCase(s) == [i \in 1..Len(s) |-> LowerChar(s[i])]

\* the class [a-z]
IsLowerLetter(c) == c \in LowerLetters

\* s occurs in text at position i (case-sensitive)
OccursAt(text, s, i) ==
    /\ i >= 1
    /\ i + Len(s) - 1 <= Len(text)
    /\ \A j \in 1..Len(s) : text[i + j - 1] = s[j]

\* s occurs in text at position i under the regular expression flag i
OccursAtIgnoreCase(text, s, i) ==
    /\ i >= 1
    /\ i + Len(s) - 1 <= Len(text)
    /\ \A j \in 1..Len(s) : LowerChar(text[i + j - 1]) = LowerChar(s[j])

\* String.prototype.includes
includes(text, s) == \E i \in 1..(Len(text) + 1) : OccursAt(text, s, i)

\* /w1|w2|.../i.test(text) for literal alternatives
TestAnyIgnoreCase(alternatives, text) ==
    \E w \in alternatives : \E i \in 1..Len(text) : OccursAtIgnoreCase(text, w, i)

\* String.prototype.indexOf(s, from): the first position >= from, 0 when none
indexOf(text, s, from) ==
    LET hits == {i \in from..Len(text) : OccursAt(text, s, i)}
    IN  IF hits = {} THEN 0 ELSE Min(hits)

\* the number of pieces of text.split(/\s+/): one more than the number of
\* whitespace runs (empty pieces at either end are counted, as in the source)
SplitWhitespaceLength(text) ==
    1 + Cardinality({i \in 1..Len(text) :
            /\ IsWhitespace(text[i])
            /\ (i = 1 \/ ~IsWhitespace(text[i - 1]))})

\* text.split(/\s+/).filter(w => w.length > 0): the start positions of the words
WordStarts(text) ==
    {i \in 1..Len(text) :
        /\ ~IsWhitespace(text[i])
        /\ (i = 1 \/ IsWhitespace(text[i - 1]))}

\* the word starting at position i
WordAt(text, i) ==
    LET IsEnd(j) == j = Len(text) \/ IsWhitespace(text[j + 1])
        last == CHOOSE j \in i..Len(text) :
                    IsEnd(j) /\ \A k \in i..(j - 1) : ~IsEnd(k)
    IN  SubSeq(text, i, last)

\* The pieces of text.split(sep).filter(p => p.trim().length > 0), for a
\* separator given as the set Sep of positions its matches cover: the start
\* position of the first non-blank character of every kept piece.
NonBlankPieceStarts(text, Sep) ==
    {i \in 1..Len(text) :
        /\ i \notin Sep
        /\ ~IsWhitespace(text[i])
        /\ (i = 1 \/ IsWhitespace(text[i - 1]) \/ (i - 1) \in Sep)
        /\ LET before == Max({0} \cup {p \in Sep : p < i})
           IN  \A k \in (before + 1)..(i - 1) : IsWhitespace(text[k])}

\* positions covered by the matches of /[.!?]+/
TerminatorPositions(text) == {i \in 1..Len(text) : IsTerminator(text[i])}

\* positions covered by the matches of /\n\n+/
BlankLinePositions(text) ==
    {i \in 1..Len(text) :
        /\ text[i] = "\n"
        /\ \/ (i > 1 /\ text[i - 1] = "\n")
           \/ (i < Len(text) /\ text[i + 1] = "\n")}

\* the piece of text.split(sep) around position i: its first and last position
PieceAround(text, Sep, i) ==
    <<Max({0} \cup {p \in Sep : p < i}) + 1,
      Min({Len(text) + 1} \cup {p \in Sep : p > i}) - 1>>

----------------------------------------------------------------------------
(* JavaScript numbers: the finite values the engine computes are kept exact  *)
(* (integers, or integers in a stated unit); the results of a division by    *)
(* zero are the values NaN and Infinity.                                     *)

Finite(n) == [kind |-> "finite", val |-> n]
NaN == [kind |-> "NaN", val |-> 0]
Infinity == [kind |-> "Infinity", val |-> 0]
NegInfinity == [kind |-> "-Infinity", val |-> 0]

IsFinite(x) == x.kind = "finite"

\* floor(num / den + 1/2) for den > 0: Math.round, and toFixed on values >= 0
RoundHalfUp(num, den) == (2 * num + den) \div (2 * den)

\* Math.ceil(num / den) for den > 0
Ceil(num, den) == (num + den - 1) \div den

DigitChars == <<"0", "1", "2", "3", "4", "5", "6", "7", "8", "9">>

\* the decimal digits of n >= 0
RECURSIVE Digits(_)
Digits(n) ==
    IF n < 10 THEN <<DigitChars[n + 1]>>
    ELSE Append(Digits(n \div 10), DigitChars[(n % 10) + 1])

\* Number.prototype.toFixed(2) of a value >= 0 given in hundredths
toFixed2(hundredths) ==
    Digits(hundredths \div 100)
        \o <<".", DigitChars[((hundredths \div 10) % 10) + 1],
             DigitChars[(hundredths % 10) + 1]>>

----------------------------------------------------------------------------
(* Regular expressions built from keywords                                  *)

\* The matches of a global regular expression, given as the function from
\* every position where a match can start to the position after that match:
\* String.prototype.match with flag g counts them left to right, each search
\* resuming where the previous match ended (one further on after an empty
\* match).
RECURSIVE MatchCount(_, _)
MatchCount(ends, from) ==
    LET later == {i \in DOMAIN ends : i >= from}
    IN  IF later = {} THEN 0
        ELSE LET m == Min(later)
             IN  1 + MatchCount(ends, IF ends[m] = m THEN m + 1 ELSE ends[m])

\* keyword.replace(/[.*+?^${}()|[\]\\]/g, '\\$&') compiled with flags gi:
\* every character of the keyword matches itself, ignoring case
EscapedMatchEnds(keyword, text) ==
    [i \in {i \in 1..(Len(text) + 1) : OccursAtIgnoreCase(text, keyword, i)}
        |-> i + Len(keyword)]

\* new RegExp(keyword, 'gi') on the keyword as given.  Of the metacharacters,
\* the keyword alphabet of this model holds "." (any character but a line
\* terminator) and "+" (one or more of the preceding atom, greedy); a "+"
\* with no atom before it is the SyntaxError "Nothing to repeat".
RegExpSyntaxError(keyword) ==
    \E k \in 1..Len(keyword) :
        /\ keyword[k] = "+"
        /\ (k = 1 \/ keyword[k - 1] = "+")

\* the position after the match of keyword[k..] at text position pos, 0 when
\* there is none; a quantified atom takes the longest run that lets the rest
\* of the pattern match (backtracking from the greedy choice)
RECURSIVE RegExpMatchEnd(_, _, _, _)
RegExpMatchEnd(keyword, text, k, pos) ==
    IF k > Len(keyword) THEN pos
    ELSE LET AtomMatches(c) ==
                 IF keyword[k] = "." THEN c # "\n"
                 ELSE LowerChar(c) = LowerChar(keyword[k])
             quantified == k < Len(keyword) /\ keyword[k + 1] = "+"
         IN  IF ~quantified
             THEN IF pos <= Len(text) /\ AtomMatches(text[pos])
                  THEN RegExpMatchEnd(keyword, text, k + 1, pos + 1)
                  ELSE 0
             ELSE LET stop == Min({j \in pos..Len(text) : ~AtomMatches(text[j])}
                                  \cup {Len(text) + 1})
                      fits == {n \in 1..(stop - pos) :
                                  RegExpMatchEnd(keyword, text, k + 2, pos + n) # 0}
                  IN  IF fits = {} THEN 0
                      ELSE RegExpMatchEnd(keyword, text, k + 2, pos + Max(fits))

UnescapedMatchEnds(keyword, text) ==
    LET end == [i \in 1..(Len(text) + 1) |-> RegExpMatchEnd(keyword, text, 1, i)]
    IN  [i \in {i \in DOMAIN end : end[i] # 0} |-> end[i]]

\* (script.match(new RegExp(keyword, 'gi')) || []).length
UnescapedMatchCount(keyword, text) == MatchCount(UnescapedMatchEnds(keyword, text), 1)

\* the same count with the keyword escaped first
EscapedMatchCount(keyword, text) == MatchCount(EscapedMatchEnds(keyword, text), 1)

----------------------------------------------------------------------------
(* Metrics: countSyllables, calculateReadability, analyzeScript             *)

Vowels == {"a", "e", "i", "o", "u", "y"}

\* the for loop of countSyllables over word[k..], with its two locals
RECURSIVE SyllableLoop(_, _, _, _)
SyllableLoop(word, k, count, prevWasVowel) ==
    IF k > Len(word) THEN count
    ELSE LET isVowel == word[k] \in Vowels
         IN  SyllableLoop(word, k + 1,
                          IF isVowel /\ ~prevWasVowel THEN count + 1 ELSE count,
                          isVowel)

\* countSyllables without the silent-e adjustment
SilentEKept(word, count) == count

\* if (word.endsWith('e')) count--
SilentE(word, count) == IF word[Len(word)] = "e" THEN count - 1 ELSE count

ShortWordLength == 3

countSyllables(w) ==
    LET word == SelectSeq(toLowerCase(w), IsLowerLetter)
    IN  IF Len(word) <= ShortWordLength THEN 1
        ELSE Max({1, SilentE(word, SyllableLoop(word, 1, 0, FALSE))})

\* words.reduce((sum, word) => sum + this.countSyllables(word), 0), counted
\* as the number of (word, syllable) pairs
TotalSyllables(script) ==
    Cardinality(UNION {{<<i, n>> : n \in 1..countSyllables(WordAt(script, i))} :
                           i \in WordStarts(script)})

\* The constants of the simplified Flesch-Kincaid formula, in thousandths
FleschBase == 206835
FleschSentenceWeight == 1015
FleschSyllableWeight == 84600

VeryEasyFrom == 80
EasyFrom == 60
ModerateFrom == 40
DifficultFrom == 20

\* score >= threshold, for score = num / den with den > 0, in thousandths
AtLeast(num, den, threshold) == num >= threshold * 1000 * den

\* the else-if chain with its first two tests in the wrong order
ReadabilityLevelEasyFirst(num, den) ==
    IF AtLeast(num, den, EasyFrom) THEN "easy"
    ELSE IF AtLeast(num, den, VeryEasyFrom) THEN "very easy"
    ELSE IF AtLeast(num, den, ModerateFrom) THEN "moderate"
    ELSE IF AtLeast(num, den, DifficultFrom) THEN "difficult"
    ELSE "very difficult"

\* the else-if chain over the raw score
ReadabilityLevel(num, den) ==
    IF AtLeast(num, den, VeryEasyFrom) THEN "very easy"
    ELSE IF AtLeast(num, den, EasyFrom) THEN "easy"
    ELSE IF AtLeast(num, den, ModerateFrom) THEN "moderate"
    ELSE IF AtLeast(num, den, DifficultFrom) THEN "difficult"
    ELSE "very difficult"

\* calculateReadability on the three counts it derives from the script.  The
\* raw score is the exact fraction num / (1000 * den); with no words both
\* averages are 0/0 and the score is NaN, with words but no sentence the first
\* average is Infinity and the score -Infinity: every comparison is then false.
ReadabilityOf(wordCount, sentenceCount, syllables) ==
    IF wordCount = 0 THEN [score |-> NaN, level |-> "very difficult"]
    ELSE IF sentenceCount = 0 THEN [score |-> NegInfinity, level |-> "very difficult"]
    ELSE LET den == sentenceCount * wordCount
             num == FleschBase * den
                    - FleschSentenceWeight * wordCount * wordCount
                    - FleschSyllableWeight * syllables * sentenceCount
         IN  [score |-> Finite(RoundHalfUp(num, 1000 * den)),
              level |-> ReadabilityLevel(num, den)]

calculateReadability(script) ==
    ReadabilityOf(Cardinality(WordStarts(script)),
                  Cardinality(NonBlankPieceStarts(script, TerminatorPositions(script))),
                  TotalSyllables(script))

\* keywordCount after the forEach over keywords[k..]
RECURSIVE KeywordCountFrom(_, _, _)
KeywordCountFrom(script, keywords, k) ==
    IF k > Len(keywords) THEN 0
    ELSE EscapedMatchCount(keywords[k], script) + KeywordCountFrom(script, keywords, k + 1)

\* keywordOccurrences: the keywords with at least one match, with their counts
KeywordOccurrences(script, keywords) ==
    LET found == {k \in 1..Len(keywords) : EscapedMatchCount(keywords[k], script) > 0}
    IN  [kw \in {keywords[k] : k \in found} |-> EscapedMatchCount(kw, script)]

HookLength == 100
WordsPerMinute == 150

\* keywordDensity: ((keywordCount / words.length) * 100).toFixed(2), in
\* hundredths of a percent
KeywordDensity(keywordCount, wordCount) ==
    IF wordCount = 0
    THEN IF keywordCount = 0 THEN NaN ELSE Infinity
    ELSE Finite(RoundHalfUp(keywordCount * 10000, wordCount))

\* Math.round(words.length / sentences.length)
AverageSentenceLength(wordCount, sentenceCount) ==
    IF sentenceCount = 0
    THEN IF wordCount = 0 THEN NaN ELSE Infinity
    ELSE Finite(RoundHalfUp(wordCount, sentenceCount))

analyzeScript(script, keywords) ==
    LET wordCount == Cardinality(WordStarts(script))
        Terminators == TerminatorPositions(script)
        sentenceStarts == NonBlankPieceStarts(script, Terminators)
        sentenceCount == Cardinality(sentenceStarts)
        first == PieceAround(script, Terminators, Min(sentenceStarts))
        keywordCount == KeywordCountFrom(script, keywords, 1)
        keywordOccurrences == KeywordOccurrences(script, keywords)
    IN  [wordCount |-> wordCount,
         sentenceCount |-> sentenceCount,
         paragraphCount |->
             Cardinality(NonBlankPieceStarts(script, BlankLinePositions(script))),
         averageSentenceLength |-> AverageSentenceLength(wordCount, sentenceCount),
         estimatedDuration |-> Ceil(wordCount, WordsPerMinute),
         keywordsFound |-> Cardinality(DOMAIN keywordOccurrences),
         keywordOccurrences |-> keywordOccurrences,
         totalKeywordMentions |-> keywordCount,
         keywordDensity |-> KeywordDensity(keywordCount, wordCount),
         engagementElements |->
             [hasQuestion |-> includes(script, <<"?">>),
              hasCallToAction |->
                  TestAnyIgnoreCase({<<"s","u","b","s","c","r","i","b","e">>,
                                     <<"l","i","k","e">>,
                                     <<"c","o","m","m","e","n","t">>,
                                     <<"s","h","a","r","e">>}, script),
              hasHook |-> sentenceCount > 0 /\ first[2] - first[1] + 1 < HookLength,
              questionCount |-> Cardinality({i \in 1..Len(script) : script[i] = "?"})],
         readabilityScore |-> calculateReadability(script)]

----------------------------------------------------------------------------
(* Optional values.  A request is a record holding only the fields the      *)
(* caller sent; a missing field is a field outside its DOMAIN.  Where the    *)
(* source holds undefined in a local (the first element of an empty list),   *)
(* the model holds the empty text: the source only tests such locals for     *)
(* truthiness, and both are falsy.                                           *)

undefined == <<>>

\* JavaScript truthiness of a string or undefined
Truthy(s) == Len(s) > 0

\* list[0]
FirstOf(list) == IF Len(list) > 0 THEN list[1] ELSE undefined

\* the property names every object literal inherits from Object.prototype:
\* table[key] finds them although the table does not list them
ObjectPrototypeKeys ==
    {"constructor", "toString", "valueOf", "hasOwnProperty", "isPrototypeOf",
     "propertyIsEnumerable", "toLocaleString", "__proto__", "__defineGetter__",
     "__defineSetter__", "__lookupGetter__", "__lookupSetter__"}

----------------------------------------------------------------------------
(* Planner: generateOptimizations                                           *)

CtaWords ==
    {<<"s","u","b","s","c","r","i","b","e">>,
     <<"l","i","k","e">>,
     <<"c","o","m","m","e","n","t">>}

StepWords ==
    {<<"s","t","e","p">>,
     <<"f","i","r","s","t">>,
     <<"n","e","x","t">>,
     <<"t","h","e","n">>,
     <<"f","i","n","a","l","l","y">>}

\* { light: 1, moderate: 2, aggressive: 3 }[level] || 2.  An inherited
\* property is a function or an object: truthy, so it is kept, and NaN once
\* the comparison converts it to a number.
Intensity(level) ==
    IF level = "light" THEN Finite(1)
    ELSE IF level = "moderate" THEN Finite(2)
    ELSE IF level = "aggressive" THEN Finite(3)
    ELSE IF level \in ObjectPrototypeKeys THEN NaN
    ELSE Finite(2)

\* script.split(/\n\n/)[0] || '': the text before the first "\n\n"
FirstParagraph(script) ==
    LET at == indexOf(script, <<"\n", "\n">>, 1)
    IN  IF at = 0 THEN script ELSE SubSeq(script, 1, at - 1)

\* script.split(/[.!?]/)[0]: the text before the first terminator
FirstSentence(script) ==
    LET Terminators == TerminatorPositions(script)
    IN  IF Terminators = {} THEN script ELSE SubSeq(script, 1, Min(Terminators) - 1)

\* keywords.reduce over keywords[k..] of the unescaped match counts
RECURSIVE KeywordMentionsFrom(_, _, _)
KeywordMentionsFrom(script, keywords, k) ==
    IF k > Len(keywords) THEN 0
    ELSE UnescapedMatchCount(keywords[k], script)
         + KeywordMentionsFrom(script, keywords, k + 1)

OpeningLimit == 150
DensityFloor == 1
ActiveIntensity == 2

KeywordInsertionTrigger(script, keywords) ==
    /\ Truthy(FirstOf(keywords))
    /\ ~includes(toLowerCase(FirstParagraph(script)), toLowerCase(FirstOf(keywords)))

EngagementTrigger(script) == ~includes(script, <<"?">>)

CtaTrigger(script) == ~TestAnyIgnoreCase(CtaWords, script)

\* density < 1 && intensity >= 2, for density = (keywordMentions / words) * 100
LowDensity(keywordMentions, words, level) ==
    /\ keywordMentions * 100 < DensityFloor * words
    /\ IsFinite(Intensity(level))
    /\ Intensity(level).val >= ActiveIntensity

DensityTrigger(script, keywords, level) ==
    LowDensity(KeywordMentionsFrom(script, keywords, 1), SplitWhitespaceLength(script),
               level)

OpeningTrigger(script) == Len(FirstSentence(script)) > OpeningLimit

StructureTrigger(script, contentStyle) ==
    /\ contentStyle = "tutorial"
    /\ ~TestAnyIgnoreCase(StepWords, script)

\* a suggestion is a template literal of the source and the text of its one
\* substitution (empty when it has none)
Change(type, location, template, substituted, priority) ==
    [type |-> type, location |-> location,
     suggestion |-> [template |-> template, substituted |-> substituted],
     priority |-> priority]

\* the value changes.push(change) leaves in changes when the check holds
PushIf(trigger, changes, change) == IF trigger THEN Append(changes, change) ELSE changes

\* The value generateOptimizations returns.  Compiling the regular expression
\* of the density check throws for a keyword that is no valid pattern, and
\* nothing is returned then: see GenerateOptimizationsThrows.
generateOptimizations(script, keywords, contentStyle, level) ==
    LET primaryKeyword == FirstOf(keywords)
        keywordMentions == KeywordMentionsFrom(script, keywords, 1)
        words == SplitWhitespaceLength(script)
        density == RoundHalfUp(keywordMentions * 10000, words)
        c1 == PushIf(KeywordInsertionTrigger(script, keywords), <<>>,
                  Change("keyword_insertion", "opening",
                         "Add \"${primaryKeyword}\" to your opening to improve SEO",
                         primaryKeyword, "high"))
        c2 == PushIf(EngagementTrigger(script), c1,
                  Change("engagement", "throughout",
                         "Add questions to increase viewer engagement", <<>>, "medium"))
        c3 == PushIf(CtaTrigger(script), c2,
                  Change("cta", "middle and end",
                         "Add calls to action (subscribe, like, comment)", <<>>, "high"))
        c4 == PushIf(LowDensity(keywordMentions, words, level), c3,
                  Change("keyword_density", "throughout",
                         "Keyword density is ${density.toFixed(2)}%. Aim for 1-2%",
                         toFixed2(density), "medium"))
        c5 == PushIf(OpeningTrigger(script), c4,
                  Change("hook", "opening",
                         "Shorten your opening hook - aim for under 150 characters",
                         <<>>, "high"))
        c6 == PushIf(StructureTrigger(script, contentStyle), c5,
                  Change("structure", "throughout",
                         "Add step markers (First, Next, Then, Finally) for tutorials",
                         <<>>, "medium"))
    IN  [changes |-> c6,
         engagementPoints |->
             IF EngagementTrigger(script)
             THEN <<[type |-> "question", suggested |-> TRUE]>>
             ELSE <<>>]

\* new RegExp(kw, 'gi') in the density check throws a SyntaxError
GenerateOptimizationsThrows(keywords) ==
    \E k \in 1..Len(keywords) : RegExpSyntaxError(keywords[k])

----------------------------------------------------------------------------
(* Rewriter: applyOptimizations                                             *)

\* this.engagementPhrases as the constructor sets it.  The hook phrases are
\* texts, because the rewriter puts one into the script; the other tables
\* are only quoted in the report.
InitialEngagementPhrases ==
    [hook |-> <<
    <<"I","n"," ","t","h","i","s"," ","v","i","d","e","o",","," ","y","o","u","'","l","l"," ",
      "l","e","a","r","n">>,
    <<"H","a","v","e"," ","y","o","u"," ","e","v","e","r"," ","w","o","n","d","e","r","e","d">>,
    <<"W","h","a","t"," ","i","f"," ","I"," ","t","o","l","d"," ","y","o","u">>,
    <<"T","h","e"," ","b","i","g","g","e","s","t"," ","m","i","s","t","a","k","e"," ","p","e",
      "o","p","l","e"," ","m","a","k","e"," ","i","s">>,
    <<"H","e","r","e","'","s"," ","s","o","m","e","t","h","i","n","g"," ","m","o","s","t"," ",
      "p","e","o","p","l","e"," ","d","o","n","'","t"," ","k","n","o","w"," ","a","b","o","u",
      "t">>>>,
     transition |-> <<"Now let's talk about", "Moving on to",
                      "Here's where it gets interesting",
                      "The next important point is", "Let me show you">>,
     engagement |-> <<"Let me know in the comments", "Drop a like if you agree",
                      "Subscribe for more", "What do you think about",
                      "Share this with someone who needs it">>,
     retention |-> <<"Stay until the end for", "I'll reveal the secret at",
                     "Keep watching to discover", "The best tip is coming up",
                     "Don't miss what's next">>]

WhenItComesTo ==
    <<"W","h","e","n"," ","i","t"," ","c","o","m","e","s"," ","t","o"," ">>

QuestionOpening ==
    <<"\n","\n","W","h","a","t"," ","d","o"," ","y","o","u"," ","t","h","i","n","k"," ","a","b",
      "o","u","t"," ">>

QuestionClosing ==
    <<"?"," ","L","e","t"," ","m","e"," ","k","n","o","w"," ","i","n"," ","t","h","e"," ","c",
      "o","m","m","e","n","t","s",".","\n","\n">>

This ==
    <<"t","h","i","s">>

CallToAction ==
    <<"\n","\n","I","f"," ","y","o","u"," ","f","o","u","n","d"," ","t","h","i","s"," ","h","e",
      "l","p","f","u","l",","," ","d","o","n","'","t"," ","f","o","r","g","e","t"," ","t","o",
      " ","l","i","k","e"," ","t","h","i","s"," ","v","i","d","e","o"," ","a","n","d"," ","s",
      "u","b","s","c","r","i","b","e"," ","f","o","r"," ","m","o","r","e"," ","c","o","n","t",
      "e","n","t"," ","l","i","k","e"," ","t","h","i","s","!">>

\* positions covered by the matches of /(?<=[.!?])\s+/: the whitespace runs
\* that directly follow a terminator
SentenceBreakPositions(text) ==
    LET Terminators == TerminatorPositions(text)
    IN  {i \in 1..Len(text) :
            /\ IsWhitespace(text[i])
            /\ \E q \in Terminators :
                   q < i /\ \A j \in (q + 1)..i : IsWhitespace(text[j])}

\* text.split(/(?<=[.!?])\s+/)[0]
FirstSplitSentence(text) ==
    LET Breaks == SentenceBreakPositions(text)
    IN  IF Breaks = {} THEN text ELSE SubSeq(text, 1, Min(Breaks) - 1)

\* text.split(/(?<=[.!?])\s+/).join(' '): every sentence break becomes one space
JoinSentences(text) ==
    LET Breaks == SentenceBreakPositions(text)
        Kept(i) == i \notin Breaks \/ (i - 1) \notin Breaks
        kept == SelectSeq([i \in 1..Len(text) |-> i], Kept)
    IN  [k \in 1..Len(kept) |-> IF kept[k] \in Breaks THEN " " ELSE text[kept[k]]]

\* s.charAt(0).toLowerCase() + s.slice(1)
LowerFirst(s) == [i \in 1..Len(s) |-> IF i = 1 THEN LowerChar(s[i]) ELSE s[i]]

\* the hook insertion test without its length condition
HookTriggerAnyLength(script, primaryKeyword) == Truthy(primaryKeyword)

\* the hook insertion test: sentences[0]?.length > 150 && primaryKeyword
HookTrigger(script, primaryKeyword) ==
    Len(FirstSplitSentence(script)) > OpeningLimit /\ Truthy(primaryKeyword)

\* step 1: hook + optimizedScript, for the phrase Math.random picked
\* (choice = Math.floor(Math.random() * hookPhrases.length), 0-based)
AfterHook(script, primaryKeyword, hookPhrases, choice) ==
    IF HookTrigger(script, primaryKeyword)
    THEN hookPhrases[choice + 1] \o <<" ">> \o primaryKeyword \o <<".", " ">> \o script
    ELSE script

\* step 2: the first paragraph with its second sentence rewritten, joined
\* back to the paragraphs after it
AfterKeyword(text, primaryKeyword) ==
    LET first == FirstParagraph(text)
        rest == SubSeq(text, Len(first) + 1, Len(text))
        Breaks == SentenceBreakPositions(first)
        breakStart == Min(Breaks)
        breakEnd == Min({i \in Breaks : (i + 1) \notin Breaks})
    IN  IF /\ Truthy(primaryKeyword)
           /\ Truthy(first)
           /\ ~includes(toLowerCase(first), toLowerCase(primaryKeyword))
           /\ Breaks # {}
        THEN SubSeq(first, 1, breakStart - 1) \o <<" ">>
                 \o WhenItComesTo \o primaryKeyword \o <<",", " ">>
                 \o JoinSentences(LowerFirst(SubSeq(first, breakEnd + 1, Len(first))))
                 \o rest
        ELSE text

\* step 3 searching from the start of the text: indexOf('.') without midPoint
AfterQuestionFromStart(text, primaryKeyword) ==
    LET insertPoint == indexOf(text, <<".">>, 1)
    IN  IF ~includes(text, <<"?">>) /\ insertPoint # 0
        THEN SubSeq(text, 1, insertPoint)
                 \o QuestionOpening
                 \o (IF Truthy(primaryKeyword) THEN primaryKeyword ELSE This)
                 \o QuestionClosing
                 \o SubSeq(text, insertPoint + 1, Len(text))
        ELSE text

\* step 3: the question block after the first "." at or after the midpoint
AfterQuestion(text, primaryKeyword) ==
    LET midPoint == Len(text) \div 2
        insertPoint == indexOf(text, <<".">>, midPoint + 1)
    IN  IF ~includes(text, <<"?">>) /\ insertPoint # 0
        THEN SubSeq(text, 1, insertPoint)
                 \o QuestionOpening
                 \o (IF Truthy(primaryKeyword) THEN primaryKeyword ELSE This)
                 \o QuestionClosing
                 \o SubSeq(text, insertPoint + 1, Len(text))
        ELSE text

\* step 4 with the call-to-action test of analyzeScript, which accepts "share"
AfterCtaCountingShare(text) ==
    IF ~TestAnyIgnoreCase(CtaWords \cup {<<"s", "h", "a", "r", "e">>}, text)
    THEN text \o CallToAction
    ELSE text

\* step 4: the closing call to action
AfterCta(text) ==
    IF ~TestAnyIgnoreCase(CtaWords, text) THEN text \o CallToAction ELSE text

\* the four steps with the call-to-action test made on the original script
\* instead of the text the earlier steps produced
applyOptimizationsCtaOnOriginal(script, primaryKeywords, hookPhrases, choice) ==
    LET primaryKeyword == FirstOf(primaryKeywords)
        questioned ==
            AfterQuestion(
                AfterKeyword(AfterHook(script, primaryKeyword, hookPhrases, choice),
                             primaryKeyword),
                primaryKeyword)
    IN  IF ~TestAnyIgnoreCase(CtaWords, script) THEN questioned \o CallToAction
        ELSE questioned

\* the first three steps only: the closing call to action is never appended
applyOptimizationsWithoutCta(script, primaryKeywords, hookPhrases, choice) ==
    LET primaryKeyword == FirstOf(primaryKeywords)
    IN  AfterQuestion(
            AfterKeyword(AfterHook(script, primaryKeyword, hookPhrases, choice),
                         primaryKeyword),
            primaryKeyword)

\* the four steps, each on the text the steps before it produced
applyOptimizations(script, primaryKeywords, hookPhrases, choice) ==
    LET primaryKeyword == FirstOf(primaryKeywords)
    IN  AfterCta(
            AfterQuestion(
                AfterKeyword(AfterHook(script, primaryKeyword, hookPhrases, choice),
                             primaryKeyword),
                primaryKeyword))

----------------------------------------------------------------------------
(* Report assembler: the suggestions, tips and warnings of the Report        *)

DefaultTargetDuration == 10
ShortFactor == 8
LongFactor == 12

StructureGuide ==
    [tutorial |-> <<"Introduction", "Prerequisites/Setup", "Step-by-step instructions",
                    "Tips & Tricks", "Conclusion">>,
     review |-> <<"Introduction", "Overview/Unboxing", "Features", "Pros & Cons",
                  "Verdict">>,
     educational |-> <<"Hook", "Context", "Main concepts", "Examples", "Summary">>,
     entertainment |-> <<"Hook", "Setup", "Main content", "Payoff", "Outro">>,
     vlog |-> <<"Intro", "Main activities", "Highlights", "Reflection", "Outro">>]

\* structureGuide[contentStyle] || structureGuide.tutorial; an inherited
\* property is truthy and is what the lookup yields
StructureSections(contentStyle) ==
    IF contentStyle \in DOMAIN StructureGuide THEN StructureGuide[contentStyle]
    ELSE IF contentStyle \in ObjectPrototypeKeys THEN <<"Object.prototype", contentStyle>>
    ELSE StructureGuide.tutorial

\* estimatedMinutes < targetDuration * 0.8, else > targetDuration * 1.2, in tenths
generateStructureRecommendations(script, targetDuration, contentStyle) ==
    LET estimatedMinutes == Ceil(SplitWhitespaceLength(script), WordsPerMinute)
        duration ==
            IF 10 * estimatedMinutes < ShortFactor * targetDuration
            THEN <<[section |-> "overall", issue |-> "short",
                    minutes |-> estimatedMinutes, target |-> targetDuration,
                    suggestion |->
                        "Add more detail, examples, or sections to reach target duration"]>>
            ELSE IF 10 * estimatedMinutes > LongFactor * targetDuration
            THEN <<[section |-> "overall", issue |-> "long",
                    minutes |-> estimatedMinutes, target |-> targetDuration,
                    suggestion |->
                        "Trim unnecessary content or split into multiple videos"]>>
            ELSE <<>>
    IN  duration \o
        <<[section |-> "structure", style |-> contentStyle,
           sections |-> StructureSections(contentStyle)]>>

ExamplesShown == 2

generateEngagementSuggestions(phrases) ==
    <<[type |-> "retention", timing |-> "30 seconds in",
       examples |-> SubSeq(phrases.retention, 1, ExamplesShown)],
      [type |-> "engagement", timing |-> "middle of video",
       examples |-> SubSeq(phrases.engagement, 1, ExamplesShown)],
      [type |-> "transitions", timing |-> "between sections",
       examples |-> SubSeq(phrases.transition, 1, ExamplesShown)],
      [type |-> "hook", timing |-> "first 15 seconds",
       examples |-> SubSeq(phrases.hook, 1, ExamplesShown)]>>

PrimaryTarget == 3
SecondaryTarget == 1
SecondaryShown == 3

\* the suggestions pushed by a forEach over keywords[k..]: one for every
\* keyword matched fewer than target times
RECURSIVE InsertionsFrom(_, _, _, _, _)
InsertionsFrom(script, keywords, k, target, recommended) ==
    IF k > Len(keywords) THEN <<>>
    ELSE LET count == UnescapedMatchCount(keywords[k], script)
         IN  (IF count < target
              THEN <<[keyword |-> keywords[k], currentCount |-> count,
                      recommendedCount |-> recommended]>>
              ELSE <<>>)
             \o InsertionsFrom(script, keywords, k + 1, target, recommended)

suggestKeywordInsertions(script, primaryKeywords, secondaryKeywords) ==
    InsertionsFrom(script, primaryKeywords, 1, PrimaryTarget, "3-5")
        \o InsertionsFrom(script,
                          SubSeq(secondaryKeywords, 1,
                                 Min({SecondaryShown, Len(secondaryKeywords)})),
                          1, SecondaryTarget, "1-2")

\* new RegExp(keyword, 'gi') in either forEach throws a SyntaxError
SuggestKeywordInsertionsThrows(primaryKeywords, secondaryKeywords) ==
    \/ \E k \in 1..Len(primaryKeywords) : RegExpSyntaxError(primaryKeywords[k])
    \/ \E k \in 1..Min({SecondaryShown, Len(secondaryKeywords)}) :
           RegExpSyntaxError(secondaryKeywords[k])

CommonTips ==
    <<"Speak naturally - keyword stuffing sounds robotic",
      "Use keywords in questions to sound more natural",
      "Mention your primary keyword in the first 30 seconds for YouTube SEO",
      "Repeat key points for retention",
      "Use \"you\" language to connect with viewers">>

StyleTips ==
    [tutorial |-> <<"Number your steps clearly", "Pause after important points",
                    "Acknowledge common mistakes">>,
     review |-> <<"Be honest about drawbacks", "Compare to alternatives",
                  "Give a clear recommendation">>,
     educational |-> <<"Start with why it matters", "Use analogies and examples",
                       "Summarize key takeaways">>]

\* [...commonTips, ...(styleTips[contentStyle] || [])]
getScriptTips(contentStyle) ==
    CommonTips \o (IF contentStyle \in DOMAIN StyleTips THEN StyleTips[contentStyle]
                   ELSE <<>>)

\* spreading styleTips[contentStyle] throws a TypeError when the lookup finds
\* an inherited property, which is truthy and not iterable
GetScriptTipsThrows(contentStyle) == contentStyle \in ObjectPrototypeKeys

StuffingLimit == 3
SentenceLengthLimit == 25

\* x > limit for a JavaScript number x; false for NaN
GreaterThan(x, limit) ==
    \/ x.kind = "Infinity"
    \/ (x.kind = "finite" /\ x.val > limit)

\* analysis.keywordDensity as the template literal prints it
DensityText(x) ==
    IF x.kind = "finite" THEN toFixed2(x.val)
    ELSE IF x.kind = "NaN" THEN <<"N", "a", "N">>
    ELSE <<"I", "n", "f", "i", "n", "i", "t", "y">>

Warning(type, template, substituted) ==
    [type |-> type, message |-> [template |-> template, substituted |-> substituted]]

generateWarnings(analysis) ==
    (IF GreaterThan(analysis.keywordDensity, StuffingLimit * 100)
     THEN <<Warning("keyword_stuffing",
                    "Keyword density (${analysis.keywordDensity}%) is too high - may sound unnatural",
                    DensityText(analysis.keywordDensity))>>
     ELSE <<>>)
    \o (IF GreaterThan(analysis.averageSentenceLength, SentenceLengthLimit)
        THEN <<Warning("readability",
                       "Average sentence length is high - consider breaking up long sentences",
                       <<>>)>>
        ELSE <<>>)
    \o (IF ~analysis.engagementElements.hasCallToAction
        THEN <<Warning("missing_cta",
                       "No clear call to action found - add subscribe/like reminders",
                       <<>>)>>
        ELSE <<>>)

----------------------------------------------------------------------------
(* optimizeScript and handleToolCall                                        *)

Has(record, field) == field \in DOMAIN record

\* a destructured parameter with its default value
ArgOr(args, field, default) == IF Has(args, field) THEN args[field] ELSE default

\* keywords?.recommended?.[tier]?.map(k => k.keyword) || fallback
KeywordTier(args, tier, fallback) ==
    IF Has(args, "keywords") /\ Has(args.keywords, tier)
    THEN args.keywords[tier]
    ELSE fallback

PrimaryKeywords(args) == KeywordTier(args, "primary", <<args.concept>>)
SecondaryKeywords(args) == KeywordTier(args, "secondary", <<>>)
LongTailKeywords(args) == KeywordTier(args, "longTail", <<>>)
AllKeywords(args) ==
    PrimaryKeywords(args) \o SecondaryKeywords(args) \o LongTailKeywords(args)

ContentStyle(args) == ArgOr(args, "contentStyle", "tutorial")
OptimizationLevel(args) == ArgOr(args, "optimizationLevel", "moderate")
TargetDuration(args) == ArgOr(args, "targetDuration", DefaultTargetDuration)

\* !script || !concept
ValidationFails(args) ==
    \/ ~Has(args, "script") \/ ~Truthy(args.script)
    \/ ~Has(args, "concept") \/ ~Truthy(args.concept)

\* optimized.keywordDensity - original.keywordDensity, toFixed(2): both are
\* two-decimal strings, so the difference of the hundredths is exact
DensityChange(optimized, original) ==
    IF optimized.kind = "finite" /\ original.kind = "finite"
    THEN Finite(optimized.val - original.val)
    ELSE IF optimized.kind = "Infinity" /\ original.kind = "finite"
    THEN Infinity
    ELSE IF optimized.kind = "finite" /\ original.kind = "Infinity"
    THEN NegInfinity
    ELSE NaN

\* the first keyword whose regular expression does not compile
FirstBadKeyword(keywords) ==
    keywords[Min({k \in 1..Len(keywords) : RegExpSyntaxError(keywords[k])})]

Thrown(name, message, substituted, ran) ==
    [threw |-> TRUE,
     error |-> [name |-> name, message |-> message, substituted |-> substituted],
     stages |-> ran]

Returned(report, ran) == [threw |-> FALSE, report |-> report, stages |-> ran]

\* the Report object optimizeScript returns
Report(args, phrases, now, choice) ==
    LET script == args.script
        allKeywords == AllKeywords(args)
        originalAnalysis == analyzeScript(script, allKeywords)
        optimizations ==
            generateOptimizations(script, allKeywords, ContentStyle(args),
                                  OptimizationLevel(args))
        optimizedScript ==
            applyOptimizations(script, PrimaryKeywords(args), phrases.hook, choice)
        optimizedAnalysis == analyzeScript(optimizedScript, allKeywords)
    IN  [concept |-> args.concept,
         contentStyle |-> ContentStyle(args),
         targetDuration |-> TargetDuration(args),
         optimizationLevel |-> OptimizationLevel(args),
         generatedAt |-> now,
         original |-> [script |-> script, analysis |-> originalAnalysis],
         optimized |-> [script |-> optimizedScript, analysis |-> optimizedAnalysis],
         improvements |->
             [keywordDensityChange |->
                  DensityChange(optimizedAnalysis.keywordDensity,
                                originalAnalysis.keywordDensity),
              keywordsAdded |->
                  optimizedAnalysis.keywordsFound - originalAnalysis.keywordsFound,
              engagementPointsAdded |-> Len(optimizations.engagementPoints)],
         optimizations |-> optimizations.changes,
         structureRecommendations |->
             generateStructureRecommendations(script, TargetDuration(args),
                                              ContentStyle(args)),
         engagementSuggestions |-> generateEngagementSuggestions(phrases),
         keywordInsertions |->
             suggestKeywordInsertions(script, PrimaryKeywords(args),
                                      SecondaryKeywords(args)),
         tips |-> getScriptTips(ContentStyle(args)),
         warnings |-> generateWarnings(optimizedAnalysis)]

\* One call of optimizeScript: what it throws or returns, and the stages it
\* ran before that.  phrases is this.engagementPhrases, now the value of
\* new Date(), choice the phrase index Math.random yields if it is asked.
optimizeScript(args, phrases, now, choice) ==
    IF ValidationFails(args)
    THEN Thrown("Error", "Script and concept are required", <<>>, <<>>)
    ELSE IF GenerateOptimizationsThrows(AllKeywords(args))
    THEN Thrown("SyntaxError", "Invalid regular expression: /${kw}/gi: Nothing to repeat",
                FirstBadKeyword(AllKeywords(args)),
                <<"console.log", "analyzeScript", "generateOptimizations">>)
    ELSE IF SuggestKeywordInsertionsThrows(PrimaryKeywords(args), SecondaryKeywords(args))
    THEN Thrown("SyntaxError", "Invalid regular expression: /${kw}/gi: Nothing to repeat",
                FirstBadKeyword(PrimaryKeywords(args) \o SecondaryKeywords(args)),
                <<"console.log", "analyzeScript", "generateOptimizations",
                  "applyOptimizations", "analyzeScript",
                  "generateStructureRecommendations", "generateEngagementSuggestions",
                  "suggestKeywordInsertions">>)
    ELSE IF GetScriptTipsThrows(ContentStyle(args))
    THEN Thrown("TypeError", "styleTips[contentStyle] is not iterable", <<>>,
                <<"console.log", "analyzeScript", "generateOptimizations",
                  "applyOptimizations", "analyzeScript",
                  "generateStructureRecommendations", "generateEngagementSuggestions",
                  "suggestKeywordInsertions", "getScriptTips">>)
    ELSE Returned(Report(args, phrases, now, choice),
                  <<"console.log", "analyzeScript", "generateOptimizations",
                    "applyOptimizations", "analyzeScript",
                    "generateStructureRecommendations", "generateEngagementSuggestions",
                    "suggestKeywordInsertions", "getScriptTips", "generateWarnings">>)

UnknownToolCode == -32602
InternalErrorCode == -32603

\* handleToolCall without its catch clause: whatever optimizeScript produced
\* is wrapped as the result
ToolCallResponseWithoutCatch(params, outcome) ==
    IF params.name # "optimizeScript"
    THEN [jsonrpc |-> "2.0",
          error |-> [code |-> UnknownToolCode,
                     message |-> [name |-> "Unknown tool", message |-> params.name,
                                  substituted |-> <<>>]],
          id |-> params.id]
    ELSE [jsonrpc |-> "2.0",
          result |-> [content |-> IF outcome.threw THEN outcome.error
                                  ELSE outcome.report],
          id |-> params.id]

\* the response handleToolCall returns for params and the outcome of the
\* optimizeScript call it awaits
ToolCallResponse(params, outcome) ==
    IF params.name # "optimizeScript"
    THEN [jsonrpc |-> "2.0",
          error |-> [code |-> UnknownToolCode,
                     message |-> [name |-> "Unknown tool", message |-> params.name,
                                  substituted |-> <<>>]],
          id |-> params.id]
    ELSE IF outcome.threw
    THEN [jsonrpc |-> "2.0",
          error |-> [code |-> InternalErrorCode, message |-> outcome.error],
          id |-> params.id]
    ELSE [jsonrpc |-> "2.0",
          result |-> [content |-> outcome.report],
          id |-> params.id]

\* optimizeScript(args) as handleToolCall calls it: destructuring the
\* parameter throws a TypeError when the request carries no arguments
CallOptimizeScript(params, phrases, now, choice) ==
    IF ~Has(params, "arguments")
    THEN Thrown("TypeError", "Cannot destructure property 'script' of 'undefined'",
                <<>>, <<>>)
    ELSE optimizeScript(params.arguments, phrases, now, choice)

\* Math.random() is asked for a phrase only when the hook is inserted
HookAsked(params) ==
    /\ params.name = "optimizeScript"
    /\ Has(params, "arguments")
    /\ ~ValidationFails(params.arguments)
    /\ HookTrigger(params.arguments.script, FirstOf(PrimaryKeywords(params.arguments)))

----------------------------------------------------------------------------
(* The requests the model sends                                             *)

MaxParts == 2
MaxClock == 1

\* unit repeated n times
Repeat(unit, n) == [i \in 1..(n * Len(unit)) |-> unit[((i - 1) % Len(unit)) + 1]]

\* the number of words of the filler part: with one more word, a sentence of
\* 30 words
FillerWords == 29

\* the number of words of the long opening: 156 characters
LongOpeningWords == 26

Seo ==
    <<"s","e","o">>

CPlusPlus ==
    <<"c","+","+">>

Video ==
    <<"v","i","d","e","o">>

FinalPart ==
    <<"S","e","o",".">>

FillerPart == Repeat(<<"g", "o", " ">>, FillerWords)

LongOpeningPart == Repeat(<<"v", "i", "d", "e", "o", " ">>, LongOpeningWords)

QuestionPart ==
    <<"W","h","y","?"," ">>

CtaPart ==
    <<"L","i","k","e"," ","i","t","!"," ">>

BreakPart == <<"\n", "\n">>

BlankPart == <<" ">>

ScriptParts ==
    {FinalPart, FillerPart, LongOpeningPart, QuestionPart, CtaPart, BreakPart}

\* the scripts made of n parts
RECURSIVE ScriptsOf(_)
ScriptsOf(n) ==
    IF n = 0 THEN {<<>>}
    ELSE {s \o part : s \in ScriptsOf(n - 1), part \in ScriptParts}

Scripts == UNION {ScriptsOf(n) : n \in 1..MaxParts}

BasicScript ==
    <<"T","h","i","s"," ","i","s"," ","a"," ","b","a","s","i","c"," ","v","i","d","e","o",".",
      " ","I","t"," ","h","a","s"," ","n","o"," ","q","u","e","s","t","i","o","n","s"," ","o",
      "r"," ","c","a","l","l","s"," ","t","o"," ","a","c","t","i","o","n",".">>

ShareScript ==
    <<"S","h","a","r","e"," ","t","h","e"," ","n","e","x","t"," ","s","t","e","p","!">>

GardeningTips ==
    <<"g","a","r","d","e","n","i","n","g"," ","t","i","p","s">>

ToolCall(args) == [name |-> "optimizeScript", arguments |-> args, id |-> 1]

\* every script, with the concept as its only keyword
PlainCalls == {ToolCall([script |-> s, concept |-> Seo]) : s \in Scripts}

\* requests that leave out or empty a required field, or name another tool
BrokenCalls ==
    {ToolCall([concept |-> Seo]),
     ToolCall([script |-> <<>>, concept |-> Seo]),
     ToolCall([script |-> BasicScript]),
     ToolCall([script |-> BasicScript, concept |-> <<>>]),
     ToolCall([script |-> <<>>, concept |-> <<>>]),
     [name |-> "optimizeScript", id |-> 1],
     [name |-> "analyzeScript", arguments |-> [script |-> BasicScript, concept |-> Seo],
      id |-> 2]}

KeywordSets ==
    {[primary |-> <<>>],
     [primary |-> <<>>, secondary |-> <<Video>>],
     [primary |-> <<Video, Seo>>, secondary |-> <<Seo>>, longTail |-> <<GardeningTips>>],
     [primary |-> <<Seo>>, secondary |-> <<CPlusPlus>>],
     [primary |-> <<Seo>>, longTail |-> <<CPlusPlus>>]}

SampleScripts == {BasicScript, LongOpeningPart \o FinalPart, BlankPart, ShareScript}

Concepts == {Seo, CPlusPlus, GardeningTips}

ContentStyles == {"tutorial", "review", "comedy", "constructor"}

OptimizationLevels == {"light", "moderate", "aggressive", "extreme", "constructor"}

TargetDurations == {0, 1}

\* the sample scripts under every concept, keyword set, style, level and target
OptionCalls ==
    {ToolCall([script |-> s, concept |-> c]) : s \in SampleScripts, c \in Concepts}
    \cup {ToolCall([script |-> s, concept |-> Seo, keywords |-> k]) :
              s \in SampleScripts, k \in KeywordSets}
    \cup {ToolCall([script |-> s, concept |-> GardeningTips, contentStyle |-> c,
                    optimizationLevel |-> l]) :
              s \in SampleScripts, c \in ContentStyles, l \in OptimizationLevels}
    \cup {ToolCall([script |-> s, concept |-> Seo, targetDuration |-> d]) :
              s \in SampleScripts, d \in TargetDurations}

ToolCalls == PlainCalls \cup BrokenCalls \cup OptionCalls

----------------------------------------------------------------------------
(* The server: one tools/call request at a time                             *)

NoRequest == [name |-> "none", id |-> 0]
NoResponse == [jsonrpc |-> "2.0", id |-> 0]

Init ==
    /\ engagementPhrases = InitialEngagementPhrases
    /\ clock = 0
    /\ request = NoRequest
    /\ response = NoResponse
    /\ stages = <<>>
    /\ history = <<>>

\* a request is waiting for its response
Pending == request # NoRequest /\ response = NoResponse

\* the response of the last request is ready to be sent
Answered == request # NoRequest /\ response # NoResponse

\* ws.on('message'): a tools/call message arrives on the idle connection
Arrive(params) ==
    /\ request = NoRequest
    /\ request' = params
    /\ UNCHANGED <<engagementPhrases, clock, response, stages, history>>

Receive == \E params \in ToolCalls : Arrive(params)

\* handleToolCall(params, id) on the waiting request, the clock reading `clock`
HandleToolCall ==
    /\ Pending
    /\ \E choice \in (IF HookAsked(request)
                      THEN 0..(Len(engagementPhrases.hook) - 1)
                      ELSE {0}) :
          \E outcome \in {CallOptimizeScript(request, engagementPhrases, clock, choice)} :
              /\ response' = ToolCallResponse(request, outcome)
              /\ stages' = IF request.name = "optimizeScript" THEN outcome.stages
                           ELSE <<>>
    /\ UNCHANGED <<engagementPhrases, clock, request, history>>

\* ws.send(JSON.stringify(response)): the response leaves, the connection is idle
Sent ==
    /\ Answered
    /\ request' = NoRequest
    /\ response' = NoResponse
    /\ stages' = <<>>
    /\ UNCHANGED <<engagementPhrases, clock>>

Send == Sent /\ UNCHANGED history

\* time passes
Tick ==
    /\ clock < MaxClock
    /\ clock' = clock + 1
    /\ UNCHANGED <<engagementPhrases, request, response, stages, history>>

Next == Receive \/ HandleToolCall \/ Send \/ Tick

Spec == Init /\ [][Next]_vars

----------------------------------------------------------------------------
(* The server with a log of the exchanges it completed                      *)

MaxHistory == 3

ReplayCalls ==
    {ToolCall([script |-> BasicScript, concept |-> Seo]),
     ToolCall([script |-> BasicScript, concept |-> GardeningTips]),
     ToolCall([script |-> <<>>, concept |-> Seo])}

ReceiveReplay == \E params \in ReplayCalls : Arrive(params)

\* the last MaxHistory exchanges, oldest first
Logged(log, exchange) ==
    IF Len(log) < MaxHistory THEN Append(log, exchange)
    ELSE Append(Tail(log), exchange)

SendLogged ==
    /\ Sent
    /\ history' = Logged(history, [request |-> request, response |-> response])

NextReplay == ReceiveReplay \/ HandleToolCall \/ SendLogged \/ Tick

SpecReplay == Init /\ [][NextReplay]_vars

----------------------------------------------------------------------------
(* countSyllables on its own                                                *)

MaxWordLen == 4

WordChars == {"a", "e", "y", "b", "E", "'"}

RECURSIVE WordsOf(_)
WordsOf(n) ==
    IF n = 0 THEN {<<>>}
    ELSE {w \o <<c>> : w \in WordsOf(n - 1), c \in WordChars}

Cat ==
    <<"c","a","t">>

Banana ==
    <<"b","a","n","a","n","a">>

Simple ==
    <<"s","i","m","p","l","e">>

SyllableWords == UNION {WordsOf(n) : n \in 0..MaxWordLen} \cup {Cat, Banana, Simple}

InitSyllables ==
    /\ engagementPhrases = InitialEngagementPhrases
    /\ clock = 0
    /\ request \in {[name |-> "countSyllables", word |-> w] : w \in SyllableWords}
    /\ response = NoResponse
    /\ stages = <<>>
    /\ history = <<>>

CountSyllables ==
    /\ request.name = "countSyllables"
    /\ response = NoResponse
    /\ response' = [syllables |-> countSyllables(request.word)]
    /\ UNCHANGED <<engagementPhrases, clock, request, stages, history>>

NextSyllables == CountSyllables

SpecSyllables == InitSyllables /\ [][NextSyllables]_vars

----------------------------------------------------------------------------
(* calculateReadability on its own                                          *)

MaxWords == 13
MaxSentences == 4

\* the words k..total of a script of `long` two-syllable words followed by
\* one-syllable words; the first sentences - 1 words and the last word end a
\* sentence
RECURSIVE WordsFrom(_, _, _, _)
WordsFrom(k, total, long, sentences) ==
    IF k > total THEN <<>>
    ELSE (IF k <= long THEN Video ELSE <<"g", "o">>)
         \o (IF k < sentences \/ k = total THEN <<".">> ELSE <<>>)
         \o (IF k < total THEN <<" ">> ELSE <<>>)
         \o WordsFrom(k + 1, total, long, sentences)

ReadabilityScripts ==
    {WordsFrom(1, total, long, sentences) :
        total \in 1..MaxWords, long \in 0..MaxWords, sentences \in 1..MaxSentences}

InitReadability ==
    /\ engagementPhrases = InitialEngagementPhrases
    /\ clock = 0
    /\ request \in {[name |-> "calculateReadability", script |-> s] :
                       s \in ReadabilityScripts}
    /\ response = NoResponse
    /\ stages = <<>>
    /\ history = <<>>

CalculateReadability ==
    /\ request.name = "calculateReadability"
    /\ response = NoResponse
    /\ response' = [readabilityScore |-> calculateReadability(request.script)]
    /\ UNCHANGED <<engagementPhrases, clock, request, stages, history>>

NextReadability == CalculateReadability

SpecReadability == InitReadability /\ [][NextReadability]_vars

----------------------------------------------------------------------------
(* Properties of the exchanges                                              *)

\* the waiting request was accepted: its response carries a Report
Accepted ==
    /\ Answered
    /\ request.name = "optimizeScript"
    /\ "result" \in DOMAIN response

\* the field is present in args and not the empty string
Supplied(args, field) == field \in DOMAIN args /\ args[field] # <<>>

\* the waiting request calls optimizeScript with arguments
CallsOptimizeScript ==
    /\ request.name = "optimizeScript"
    /\ "arguments" \in DOMAIN request

\* ... with a script and a concept that are both present and non-empty
PassesValidation ==
    /\ CallsOptimizeScript
    /\ Supplied(request.arguments, "script")
    /\ Supplied(request.arguments, "concept")

\* the sequence of the type fields of a list of records
TypesOf(list) == [k \in 1..Len(list) |-> list[k].type]

\* text contains a "." at or after its midpoint offset floor(length / 2)
PeriodFromMidpoint(text) ==
    \E i \in ((Len(text) \div 2) + 1)..Len(text) : text[i] = "."

\* the hook phrases the optimized script of the answered request can have
\* been built with: any when no hook is inserted, else the one it starts with
HookChoices ==
    LET args == request.arguments
        optimized == response.result.content.optimized.script
    IN  {c \in 0..(Len(engagementPhrases.hook) - 1) :
            \/ ~HookTrigger(args.script, FirstOf(PrimaryKeywords(args)))
            \/ LET phrase == engagementPhrases.hook[c + 1]
               IN  /\ Len(optimized) >= Len(phrase)
                   /\ SubSeq(optimized, 1, Len(phrase)) = phrase}

\* the text question injection works on: the script after hook insertion and
\* first-paragraph keyword injection
BeforeQuestion(choice) ==
    LET args == request.arguments
        primaryKeyword == FirstOf(PrimaryKeywords(args))
    IN  AfterKeyword(AfterHook(args.script, primaryKeyword, engagementPhrases.hook,
                               choice),
                     primaryKeyword)

\* C1, as the specification states it: whenever the original script of an
\* accepted request has no "?" but has a ".", the optimized script has a "?".
C1_QuestionUnlessNoPeriod ==
    Accepted =>
        LET report == response.result.content
        IN  (/\ ~includes(report.original.script, <<"?">>)
             /\ includes(report.original.script, <<".">>))
            => includes(report.optimized.script, <<"?">>)

\* C1, amended: whenever the original script of an accepted request has no
\* "?", the optimized script has a "?" exactly when the text after hook
\* insertion and keyword injection has a "." at or after its midpoint; a "."
\* that lies only before the midpoint leaves question injection a no-op.
C1_QuestionIffPeriodFromMidpoint ==
    Accepted =>
        LET report == response.result.content
        IN  ~includes(report.original.script, <<"?">>)
            => /\ HookChoices # {}
               /\ \A c \in HookChoices :
                      includes(report.optimized.script, <<"?">>)
                      <=> PeriodFromMidpoint(BeforeQuestion(c))

\* C1's case: a script with a "." and no "?" whose optimized script has no "?"
C1_NoQuestionDespitePeriod ==
    /\ Accepted
    /\ "applyOptimizations" \in {stages[k] : k \in DOMAIN stages}
    /\ includes(response.result.content.original.script, <<".">>)
    /\ ~includes(response.result.content.original.script, <<"?">>)
    /\ ~includes(response.result.content.optimized.script, <<"?">>)

\* one of subscribe, like, comment occurs in text, whatever the case
HasCallToAction(text) ==
    TestAnyIgnoreCase({
        <<"s","u","b","s","c","r","i","b","e">>,
        <<"l","i","k","e">>,
        <<"c","o","m","m","e","n","t">>}, text)

\* C2: whenever the original script of an accepted request contains none of
\* subscribe, like, comment, the optimized script contains one of them.
C2_CallToActionAdded ==
    Accepted =>
        LET report == response.result.content
        IN  ~HasCallToAction(report.original.script)
            => HasCallToAction(report.optimized.script)

\* C2's case: a script without a call to action was optimized into one with it
C2_CallToActionWasMissing ==
    /\ Accepted
    /\ "applyOptimizations" \in {stages[k] : k \in DOMAIN stages}
    /\ ~HasCallToAction(response.result.content.original.script)
    /\ HasCallToAction(response.result.content.optimized.script)

\* the waiting request calls optimizeScript with a missing or empty script or
\* a missing or empty concept
FailsValidation ==
    /\ CallsOptimizeScript
    /\ \/ ~Supplied(request.arguments, "script")
       \/ ~Supplied(request.arguments, "concept")

\* the answer to a request that fails validation: no stage of the pipeline
\* ran, the response is the error response with the validation message and no
\* result field, and the phrase tables are as constructed
ValidationFailureAnswered ==
    (Answered /\ FailsValidation) =>
        /\ stages = <<>>
        /\ DOMAIN response = {"jsonrpc", "error", "id"}
        /\ response.error.code = InternalErrorCode
        /\ response.error.message.name = "Error"
        /\ response.error.message.message = "Script and concept are required"
        /\ response.id = request.id
        /\ engagementPhrases = InitialEngagementPhrases

\* sending the answer to a request that fails validation leaves the server as
\* it was constructed, the clock aside
ValidationFailureSent ==
    (Answered /\ FailsValidation /\ request' = NoRequest) =>
        /\ engagementPhrases' = InitialEngagementPhrases
        /\ response' = NoResponse
        /\ stages' = <<>>
        /\ history' = <<>>

\* C3: a request with a missing or empty script or concept fails with the
\* validation error before any analysis or rewrite, gets an error response
\* without a result field, and leaves the server in its constructed state for
\* the requests after it.
C3_ValidationFailure ==
    [](ValidationFailureAnswered) /\ [][ValidationFailureSent]_vars

\* C3's case: a request that fails validation has been answered with an error
C3_ValidationFailureAnswered ==
    /\ Answered
    /\ FailsValidation
    /\ "error" \in DOMAIN response
    /\ stages = <<>>

\* C4, as the specification states it: every request whose script and concept
\* are both non-empty is answered with a Report, whatever its keywords,
\* contentStyle and optimizationLevel.
C4_OnlyValidationFails ==
    (Answered /\ PassesValidation) => "result" \in DOMAIN response

\* the intensity the specification gives a level: 2 for every unknown level
StatedIntensity(level) ==
    IF level = "light" THEN 1
    ELSE IF level = "aggressive" THEN 3
    ELSE 2

\* the six checks in their stated order, each with its stated trigger
StatedChecks(script, keywords, contentStyle, level) ==
    <<[type |-> "keyword_insertion",
       holds |-> KeywordInsertionTrigger(script, keywords)],
      [type |-> "engagement", holds |-> ~includes(script, <<"?">>)],
      [type |-> "cta", holds |-> ~HasCallToAction(script)],
      [type |-> "keyword_density",
       holds |-> /\ KeywordMentionsFrom(script, keywords, 1) * 100
                        < SplitWhitespaceLength(script)
                 /\ StatedIntensity(level) >= 2],
      [type |-> "hook", holds |-> Len(FirstSentence(script)) > 150],
      [type |-> "structure",
       holds |-> contentStyle = "tutorial" /\ ~TestAnyIgnoreCase(StepWords, script)]>>

CheckHolds(check) == check.holds

\* C5, as the specification states it: the changes of a Report are exactly
\* the checks whose stated trigger holds, in the stated order, each once.
C5_ChangesAreTheTriggeredChecks ==
    Accepted =>
        LET args == request.arguments
        IN  TypesOf(response.result.content.optimizations)
            = TypesOf(SelectSeq(StatedChecks(args.script, AllKeywords(args),
                                             ContentStyle(args),
                                             OptimizationLevel(args)),
                                CheckHolds))

\* x, a number of JavaScript, is greater than limit
Exceeds(x, limit) == x.kind = "Infinity" \/ (x.kind = "finite" /\ x.val > limit)

\* C6, as the specification states it: a submitted script with keyword
\* density above 3% gets a keyword_stuffing warning, and one with average
\* sentence length above 25 a readability warning.  (Densities are in
\* hundredths of a percent.)
C6_WarningsOfTheSubmittedScript ==
    Accepted =>
        LET report == response.result.content
            Warned == {report.warnings[k].type : k \in DOMAIN report.warnings}
        IN  /\ Exceeds(report.original.analysis.keywordDensity, 300)
                => "keyword_stuffing" \in Warned
            /\ Exceeds(report.original.analysis.averageSentenceLength, 25)
                => "readability" \in Warned

\* the exchange was accepted and no hook was inserted for it: the first
\* sentence of its script has at most 150 characters, or it has no primary
\* keyword
WithoutHook(exchange) ==
    /\ exchange.request.name = "optimizeScript"
    /\ "result" \in DOMAIN exchange.response
    /\ LET args == exchange.request.arguments
       IN  \/ Len(FirstSplitSentence(args.script)) <= 150
           \/ FirstOf(PrimaryKeywords(args)) = <<>>

\* a response without the generatedAt field of its Report
Undated(resp) ==
    IF "result" \in DOMAIN resp
    THEN [resp EXCEPT !.result.content =
              [f \in (DOMAIN resp.result.content) \ {"generatedAt"} |->
                   resp.result.content[f]]]
    ELSE resp

C8_NoDivisionByZero ==
    Accepted =>
        \A analysis \in {response.result.content.original.analysis,
                         response.result.content.optimized.analysis} :
            /\ analysis.wordCount >= 1
            /\ analysis.sentenceCount >= 1
            /\ analysis.keywordDensity.kind = "finite"
            /\ analysis.averageSentenceLength.kind = "finite"
            /\ analysis.readabilityScore.score.kind = "finite"

\* countSyllables has returned for the word of the request
Counted == request.name = "countSyllables" /\ "syllables" \in DOMAIN response

\* the number of maximal runs of vowels in word
VowelGroups(word) ==
    Cardinality({i \in 1..Len(word) :
                    /\ word[i] \in {"a", "e", "i", "o", "u", "y"}
                    /\ (i = 1 \/ word[i - 1] \notin {"a", "e", "i", "o", "u", "y"})})

\* the stated heuristic: lowercase, strip non-letters; 1 for up to three
\* letters; else the vowel groups, less 1 for a final "e", at least 1
StatedSyllables(w) ==
    LET word == SelectSeq(toLowerCase(w), IsLowerLetter)
        groups == VowelGroups(word)
        adjusted == IF word[Len(word)] = "e" THEN groups - 1 ELSE groups
    IN  IF Len(word) <= 3 THEN 1
        ELSE IF adjusted < 1 THEN 1 ELSE adjusted

\* C9, as the specification states it: countSyllables returns what the
\* heuristic gives, which is 1 for "cat", 3 for "banana" and 2 for "simple".
C9_SyllablesOfSimpleAreTwo ==
    Counted =>
        /\ response.syllables = StatedSyllables(request.word)
        /\ request.word = Cat => response.syllables = 1
        /\ request.word = Banana => response.syllables = 3
        /\ request.word = Simple => response.syllables = 2

\* C9, amended: countSyllables returns what the heuristic gives, which is 1
\* for "cat", 3 for "banana" and 1 for "simple" (two vowel groups, less 1 for
\* the final "e").
C9_SyllablesOfSimpleAreOne ==
    Counted =>
        /\ response.syllables = StatedSyllables(request.word)
        /\ request.word = Cat => response.syllables = 1
        /\ request.word = Banana => response.syllables = 3
        /\ request.word = Simple => response.syllables = 1

\* C9's case: countSyllables has returned 1 for "simple"
C9_SimpleCounted ==
    Counted /\ request.word = Simple /\ response.syllables = 1

\* calculateReadability has returned for the script of the request
Calculated ==
    /\ request.name = "calculateReadability"
    /\ "readabilityScore" \in DOMAIN response

\* the level whose range holds the integer score
LevelOf(score) ==
    IF score >= 80 THEN "very easy"
    ELSE IF score >= 60 THEN "easy"
    ELSE IF score >= 40 THEN "moderate"
    ELSE IF score >= 20 THEN "difficult"
    ELSE "very difficult"

\* C10, as the specification states it: the level of a readability record is
\* the threshold class of its returned integer score.
C10_LevelOfReturnedScore ==
    Calculated =>
        response.readabilityScore.level = LevelOf(response.readabilityScore.score.val)

\* the raw score of a script of the given counts is at least threshold:
\* 206.835 - 1.015 * (words / sentences) - 84.6 * (syllables / words)
RawScoreAtLeast(words, sentences, syllables, threshold) ==
    206835 * words * sentences - 1015 * words * words - 84600 * syllables * sentences
        >= 1000 * threshold * words * sentences

\* C10, amended: the level is the threshold class of the raw score, which the
\* returned score rounds to the nearest integer; so the returned score is the
\* lower bound of the level's range at least and the upper bound at most (a
\* returned 80 can be labelled easy, a returned 79 is never very easy).
C10_LevelOfRawScore ==
    Calculated =>
        LET script == request.script
            words == Cardinality(WordStarts(script))
            sentences ==
                Cardinality(NonBlankPieceStarts(script, TerminatorPositions(script)))
            syllables == TotalSyllables(script)
            score == response.readabilityScore.score.val
            level == response.readabilityScore.level
            From(threshold) == RawScoreAtLeast(words, sentences, syllables, threshold)
        IN  /\ level = "very easy" <=> From(80)
            /\ level = "easy" <=> (From(60) /\ ~From(80))
            /\ level = "moderate" <=> (From(40) /\ ~From(60))
            /\ level = "difficult" <=> (From(20) /\ ~From(40))
            /\ level = "very difficult" <=> ~From(20)
            /\ level = "very easy" => score >= 80
            /\ level = "easy" => (score >= 60 /\ score <= 80)
            /\ level = "moderate" => (score >= 40 /\ score <= 60)
            /\ level = "difficult" => (score >= 20 /\ score <= 40)
            /\ level = "very difficult" => score <= 20
            /\ score = 79 => level # "very easy"

\* C10's case: a returned score of 80 labelled easy
C10_EightyLabelledEasy ==
    /\ Calculated
    /\ response.readabilityScore.score.val = 80
    /\ response.readabilityScore.level = "easy"

\* the number of places where block occurs in text
Occurrences(text, block) ==
    Cardinality({i \in 1..Len(text) : OccursAt(text, block, i)})

EndsWith(text, block) ==
    /\ Len(text) >= Len(block)
    /\ SubSeq(text, Len(text) - Len(block) + 1, Len(text)) = block

WithoutSuffix(text, block) == SubSeq(text, 1, Len(text) - Len(block))

\* the hook phrases that occur in text, each with the places it occurs at
HookPlaces(text) ==
    {<<k, i>> \in (DOMAIN engagementPhrases.hook) \X (1..Len(text)) :
        OccursAt(text, engagementPhrases.hook[k], i)}

\* C11: the optimized script of an accepted request is the result of hook
\* insertion, keyword injection, question injection and call-to-action
\* append in that order, each done at most once and each deciding on the text
\* the earlier steps produced: after an inserted hook no keyword is injected,
\* and a call to action is appended only to a text that has none, the
\* "comments" of an inserted question block included.
C11_StepsInOrderOnCumulativeText ==
    Accepted =>
        LET args == request.arguments
            original == args.script
            optimized == response.result.content.optimized.script
            primaryKeyword == FirstOf(PrimaryKeywords(args))
        IN  /\ HookChoices # {}
            /\ \A c \in HookChoices :
                   optimized = AfterCta(AfterQuestion(BeforeQuestion(c), primaryKeyword))
            /\ Cardinality(HookPlaces(optimized)) <= 1
            /\ Occurrences(optimized, WhenItComesTo) <= 1
            /\ Occurrences(optimized, QuestionClosing) <= 1
            /\ Occurrences(optimized, CallToAction) <= 1
            /\ HookPlaces(optimized) # {} => \A place \in HookPlaces(optimized) : place[2] = 1
            /\ HookPlaces(optimized) # {} => Occurrences(optimized, WhenItComesTo) = 0
            /\ Occurrences(optimized, CallToAction) = 1
                   => /\ EndsWith(optimized, CallToAction)
                      /\ ~HasCallToAction(WithoutSuffix(optimized, CallToAction))
            /\ Occurrences(optimized, QuestionClosing) = 1
                   => Occurrences(optimized, CallToAction) = 0

\* C11's case: a script with no question and no call to action got the
\* question block, and for its "comments" no call to action was appended
C11_QuestionSeenByCallToActionTest ==
    /\ Accepted
    /\ ~includes(request.arguments.script, <<"?">>)
    /\ ~HasCallToAction(request.arguments.script)
    /\ Occurrences(response.result.content.optimized.script, QuestionClosing) = 1
    /\ ~EndsWith(response.result.content.optimized.script, CallToAction)

\* the types of the warnings of the Report of the answered request
WarningTypes ==
    {response.result.content.warnings[k].type :
        k \in DOMAIN response.result.content.warnings}

\* C12: no Report contains a missing_cta warning: the metrics the warnings
\* are computed from are those of the optimized script, which always has a
\* call to action.
C12_NeverMissingCta ==
    Accepted =>
        /\ response.result.content.optimized.analysis.engagementElements.hasCallToAction
        /\ "missing_cta" \notin WarningTypes

\* C12's case: a script whose own metrics show no call to action went through
\* generateWarnings and got no missing_cta warning
C12_OriginalWithoutCallToAction ==
    /\ Accepted
    /\ "generateWarnings" \in {stages[k] : k \in DOMAIN stages}
    /\ ~response.result.content.original.analysis.engagementElements.hasCallToAction
    /\ "missing_cta" \notin WarningTypes

====
